---- MODULE Spec2Model ----
(***************************************************************************)
(* A model of csp_yield.py: the CSP class (construction, add_constraint,   *)
(* consistent) and the generator backtracking_search, with the two         *)
(* collaborators it imports from csp (Constraint, select_next_var).        *)
(***************************************************************************)
EXTENDS Naturals, Integers, Sequences, FiniteSets, TLC

VARIABLES
    phase,          \* "new" | "ready" | "ctor_raised": how CSP(...) ended
    ctorArgs,       \* the (variables, domains) the constructor was called with
    variables,      \* self.variables
    domains,        \* self.domains
    constraints,    \* self.constraints : variable -> list of constraints
    low_mark,       \* self.low_mark
    count,          \* self.count
    lastAdd,        \* the last add_constraint call and how it ended
    mode,           \* the generator: "idle" | "suspended" | "running" | "done" | "raised"
    cfg,            \* keyword arguments of the running backtracking_search
    stack,          \* the nested generator frames, outermost first
    out,            \* the items the consumer has received in this run
    err,            \* the exception that ended the run, "" when none
    noneRule,       \* what Constraint.propagate does when handed None
    first,          \* what the previous run on this object delivered
    lastTry,        \* the last pass of the for loop's body and what it did
    reported        \* the counts the progress print has shown on this object

vars == <<phase, ctorArgs, variables, domains, constraints, low_mark, count,
          lastAdd, mode, cfg, stack, out, err, noneRule, first, lastTry,
          reported>>

----------------------------------------------------------------------------
(* Bounds of the model *)

MaxVal == 2             \* domain values are 1..MaxVal

RecursionLimit == 5     \* nested generator frames the interpreter allows

----------------------------------------------------------------------------
(* The inputs the model draws from *)

Names == {"A", "B", "C"}

NameOrder == <<"A", "B", "C">>

VarLists == {<<"A", "B">>, <<"A", "B", "C">>}

DomainChoices == {1..k : k \in 1..MaxVal}

Range(s) == {s[i] : i \in 1..Len(s)}

DomainMaps(vs) == UNION {[S -> DomainChoices] : S \in SUBSET Range(vs)}

\* The pairwise "different" constraints a caller may register.
ConstraintPool ==
    {[variables |-> <<"A", "B">>],
     [variables |-> <<"A", "C">>],
     [variables |-> <<"C", "B">>]}

Strategies == {"ff", "natural"}

Configs ==
    [search_strategy : Strategies, propagate_constraints : BOOLEAN,
     order_domain : BOOLEAN, check_constraints : BOOLEAN]

NoCfg ==
    [search_strategy |-> "", propagate_constraints |-> FALSE,
     order_domain |-> FALSE, check_constraints |-> FALSE]

EmptyMap == <<>>

----------------------------------------------------------------------------
(* CSP.__init__ *)

\* Index of the first variable of the list that has no domain entry, 0 if none.
RECURSIVE FirstMissing(_, _, _)
FirstMissing(vs, ds, i) ==
    IF i > Len(vs) THEN 0
    ELSE IF vs[i] \notin DOMAIN ds THEN i
    ELSE FirstMissing(vs, ds, i + 1)

InitRaisesSkipCheck(vs, ds) == FALSE

InitRaises(vs, ds) == FirstMissing(vs, ds, 1) # 0

\* self.constraints as the loop leaves it: an empty list for every variable
\* up to and including the one that raised.
InitConstraints(vs, ds) ==
    LET m == FirstMissing(vs, ds, 1)
        n == IF m = 0 THEN Len(vs) ELSE m
    IN  [v \in {vs[i] : i \in 1..n} |-> <<>>]

NoAdd == [called |-> FALSE, constraint |-> [variables |-> <<>>],
          raised |-> FALSE, before |-> EmptyMap]

Construct(vs, ds) ==
    /\ phase = "new"
    /\ ctorArgs' = [variables |-> vs, domains |-> ds]
    /\ variables' = vs
    /\ domains' = ds
    /\ constraints' = InitConstraints(vs, ds)
    /\ low_mark' = Len(vs)
    /\ count' = 0
    /\ phase' = IF InitRaises(vs, ds) THEN "ctor_raised" ELSE "ready"
    /\ UNCHANGED <<lastTry, reported,
                   lastAdd, mode, cfg, stack, out, err, noneRule, first>>

----------------------------------------------------------------------------
(* CSP.add_constraint *)

\* Index of the first variable of the constraint that is not in self.variables.
RECURSIVE FirstUnknown(_, _, _)
FirstUnknown(cvs, vs, i) ==
    IF i > Len(cvs) THEN 0
    ELSE IF cvs[i] \notin Range(vs) THEN i
    ELSE FirstUnknown(cvs, vs, i + 1)

AddRaisesNever(c, vs) == FALSE

AddRaises(c, vs) == FirstUnknown(c.variables, vs, 1) # 0

\* The constraint lists after appending c for the first n variables of c.
RECURSIVE AppendFor(_, _, _, _)
AppendFor(cs, c, i, n) ==
    IF i > n THEN cs
    ELSE AppendFor([cs EXCEPT ![c.variables[i]] = Append(@, c)], c, i + 1, n)

AddResult(cs, c, vs) ==
    LET m == FirstUnknown(c.variables, vs, 1)
        n == IF m = 0 THEN Len(c.variables) ELSE m - 1
    IN  AppendFor(cs, c, 1, n)

Registered(c) == \E v \in DOMAIN constraints : c \in Range(constraints[v])

add_constraint(c) ==
    /\ phase = "ready"
    /\ mode = "idle"
    /\ ~Registered(c)
    /\ lastAdd' = [called |-> TRUE, constraint |-> c,
                   raised |-> AddRaises(c, variables), before |-> constraints]
    /\ constraints' = AddResult(constraints, c, variables)
    /\ UNCHANGED <<lastTry, reported,
                   phase, ctorArgs, variables, domains, low_mark, count,
                   mode, cfg, stack, out, err, noneRule, first>>

----------------------------------------------------------------------------
(* The collaborators imported from csp *)

\* A domain snapshot as backtracking_search holds it: a dict, or None.
None == [isNone |-> TRUE, d |-> EmptyMap]

Some(d) == [isNone |-> FALSE, d |-> d]

\* Python truth value of a snapshot: None and the empty dict are false.
Truthy(u) == ~u.isNone /\ DOMAIN u.d # {}

Min(S) == CHOOSE x \in S : \A y \in S : x <= y

Max(S) == CHOOSE x \in S : \A y \in S : x >= y

RECURSIVE Ascending(_)
Ascending(S) == IF S = {} THEN <<>> ELSE <<Min(S)>> \o Ascending(S \ {Min(S)})

RECURSIVE Descending(_)
Descending(S) == IF S = {} THEN <<>> ELSE <<Max(S)>> \o Descending(S \ {Max(S)})

\* The first name, in the original variable order, that satisfies P.
FirstIn(S) == NameOrder[Min({i \in 1..Len(NameOrder) : NameOrder[i] \in S})]

\* select_next_var: the variable to bind next and its candidate values in order.
\* "ff" takes the smallest remaining domain, ties by original order.
select_next_var(search_strategy, order_domain, d) ==
    LET keys == DOMAIN d
        least == Min({Cardinality(d[v]) : v \in keys})
        var == IF search_strategy = "ff"
               THEN FirstIn({v \in keys : Cardinality(d[v]) = least})
               ELSE FirstIn(keys)
    IN  [next_var |-> var,
         next_var_domain |-> IF order_domain THEN Ascending(d[var])
                             ELSE Descending(d[var])]

\* Constraint.satisfied for "all different": variables that the assignment does
\* not bind yet are unconstrained.
satisfied(c, assignment) ==
    \A i, j \in 1..Len(c.variables) :
        (/\ i < j
         /\ c.variables[i] \in DOMAIN assignment
         /\ c.variables[j] \in DOMAIN assignment)
        => assignment[c.variables[i]] # assignment[c.variables[j]]

\* Constraint.propagate for "all different": a new snapshot without the bound
\* variable and without its value in the domains of the constraint's other
\* variables; None when that leaves a domain empty.
propagate(c, next_var, value, d) ==
    LET keys == DOMAIN d \ {next_var}
        nd == [v \in keys |-> IF v \in Range(c.variables) THEN d[v] \ {value}
                              ELSE d[v]]
    IN  IF \E v \in keys : nd[v] = {} THEN None ELSE Some(nd)

----------------------------------------------------------------------------
(* CSP.consistent *)

consistent(variable, assignment) ==
    \A i \in 1..Len(constraints[variable]) :
        satisfied(constraints[variable][i], assignment)

----------------------------------------------------------------------------
(* CSP.backtracking_search *)

Frame(assignment, unassigned) ==
    [assignment |-> assignment, unassigned |-> unassigned, pc |-> "start",
     next_var |-> "", values |-> <<>>]

Top == stack[Len(stack)]

SetTop(f) == [stack EXCEPT ![Len(stack)] = f]

Extend(assignment, var, value) ==
    [v \in DOMAIN assignment \cup {var} |->
        IF v = var THEN value ELSE assignment[v]]

\* The loop over self.constraints[next_var]: each constraint propagates into
\* the snapshot the one before it returned.  A constraint handed None does
\* what rule says: it raises, or it hands None on.
\* calls lists the invocations made: the constraint and the snapshot given.
RECURSIVE PropagateFrom(_, _, _, _, _, _)
PropagateFrom(cs, i, var, value, u, rule) ==
    IF i > Len(cs)
    THEN [raised |-> FALSE, u |-> u, metNone |-> FALSE, calls |-> <<>>]
    ELSE LET call == [constraint |-> cs[i], given |-> u]
         IN  IF u.isNone
             THEN IF rule = "raise"
                  THEN [raised |-> TRUE, u |-> None, metNone |-> TRUE,
                        calls |-> <<call>>]
                  ELSE LET r == PropagateFrom(cs, i + 1, var, value, None, rule)
                       IN  [r EXCEPT !.metNone = TRUE, !.calls = <<call>> \o @]
             ELSE LET r == PropagateFrom(cs, i + 1, var, value,
                                         propagate(cs[i], var, value, u.d), rule)
                  IN  [r EXCEPT !.calls = <<call>> \o @]

PropagateFirstOnly(cs, var, value, u, rule) ==
    PropagateFrom(IF cs = <<>> THEN cs ELSE <<cs[1]>>, 1, var, value, u, rule)

Reverse(s) == [i \in 1..Len(s) |-> s[Len(s) + 1 - i]]

PropagateReversed(cs, var, value, u, rule) ==
    PropagateFrom(Reverse(cs), 1, var, value, u, rule)

PropagateAll(cs, var, value, u, rule) ==
    PropagateFrom(cs, 1, var, value, u, rule)

\* Without propagation next_unassigned stays the node's own snapshot.
NotPropagated(u) ==
    [raised |-> FALSE, u |-> u, metNone |-> FALSE, calls |-> <<>>]

\* The condition of the if that guards the recursive call.
ShouldRecurse(next_unassigned, check_constraints, isConsistent) ==
    (Truthy(next_unassigned) /\ ~check_constraints) \/ isConsistent

\* "A and B or C" evaluates C, the call of consistent, unless A and B holds.
ConsistentIsCalled(next_unassigned, check_constraints) ==
    ~(Truthy(next_unassigned) /\ ~check_constraints)

AfterTryNoCopy(frame, extended_assignment) ==
    [frame EXCEPT !.values = Tail(@), !.assignment = extended_assignment]

\* The node after one pass of the loop body: the value is consumed, the node's
\* own assignment and snapshot are untouched (the pass works on a copy).
AfterTry(frame, extended_assignment) ==
    [frame EXCEPT !.values = Tail(@)]

NoTry ==
    [made |-> FALSE, depth |-> 0, assignment |-> EmptyMap, unassigned |-> None,
     next_var |-> "", value |-> 0, extended |-> EmptyMap, calls |-> <<>>,
     result |-> None, raised |-> FALSE, askedConsistent |-> FALSE,
     recursed |-> FALSE]

NoRun == [ran |-> FALSE, cfg |-> NoCfg, out |-> <<>>, mode |-> "", err |-> ""]

\* A second call on the same object repeats the configuration of the first or
\* switches to propagation off with the consistency check on.
SecondConfigs(c) ==
    {c, [c EXCEPT !.propagate_constraints = FALSE, !.check_constraints = TRUE]}

\* Calling the generator function: nothing runs until the consumer pulls.
StartSearch(c) ==
    /\ phase = "ready"
    /\ \/ /\ mode = "idle"
          /\ first' = first
       \/ /\ mode \in {"done", "raised"}
          /\ ~first.ran
          /\ c \in SecondConfigs(cfg)
          /\ first' = [ran |-> TRUE, cfg |-> cfg, out |-> out,
                       mode |-> mode, err |-> err]
    /\ cfg' = c
    /\ stack' = <<Frame(EmptyMap, Some(domains))>>
    /\ out' = <<>>
    /\ err' = ""
    /\ mode' = "suspended"
    /\ lastTry' = NoTry
    /\ UNCHANGED <<reported,
                   phase, ctorArgs, variables, domains, constraints, low_mark,
                   count, lastAdd, noneRule>>

\* next() of the consumer resumes the innermost frame.
Pull ==
    /\ mode = "suspended"
    /\ mode' = "running"
    /\ UNCHANGED <<lastTry, reported,
                   phase, ctorArgs, variables, domains, constraints, low_mark,
                   count, lastAdd, cfg, stack, out, err, noneRule, first>>

YieldEager ==
    /\ mode = "running"
    /\ Top.pc = "start"
    /\ ~Truthy(Top.unassigned)
    /\ out' = Append(out, Top.assignment)
    /\ stack' = SetTop([Top EXCEPT !.pc = "yielded"])
    /\ UNCHANGED <<lastTry, reported, mode,
                   phase, ctorArgs, variables, domains, constraints, low_mark,
                   count, lastAdd, cfg, err, noneRule, first>>

\* "if not unassigned: yield assignment", relayed by every enclosing frame.
Yield ==
    /\ mode = "running"
    /\ Top.pc = "start"
    /\ ~Truthy(Top.unassigned)
    /\ out' = Append(out, Top.assignment)
    /\ stack' = SetTop([Top EXCEPT !.pc = "yielded"])
    /\ mode' = "suspended"
    /\ UNCHANGED <<lastTry, reported,
                   phase, ctorArgs, variables, domains, constraints, low_mark,
                   count, lastAdd, cfg, err, noneRule, first>>

Pop ==
    /\ stack' = SubSeq(stack, 1, Len(stack) - 1)
    /\ mode' = IF Len(stack) = 1 THEN "done" ELSE "running"

\* The frame that yielded is resumed and falls off the end of the function.
LeafReturn ==
    /\ mode = "running"
    /\ Top.pc = "yielded"
    /\ Pop
    /\ UNCHANGED <<lastTry, reported,
                   phase, ctorArgs, variables, domains, constraints, low_mark,
                   count, lastAdd, cfg, out, err, noneRule, first>>

ExpandOnlyAtNewLow ==
    /\ mode = "running"
    /\ Top.pc = "start"
    /\ Truthy(Top.unassigned)
    /\ LET nbr_left == Cardinality(DOMAIN Top.unassigned.d)
           sel == select_next_var(cfg.search_strategy, cfg.order_domain,
                                  Top.unassigned.d)
       IN  /\ IF nbr_left <= low_mark
              THEN /\ count' = count + 1
                   /\ low_mark' = nbr_left
                   /\ reported' = reported \cup {nbr_left}
                   /\ stack' = SetTop([Top EXCEPT !.pc = "loop",
                                          !.next_var = sel.next_var,
                                          !.values = sel.next_var_domain])
              ELSE /\ UNCHANGED <<count, low_mark, reported>>
                   /\ stack' = SetTop([Top EXCEPT !.pc = "loop"])
    /\ UNCHANGED <<lastTry,
                   phase, ctorArgs, variables, domains, constraints, lastAdd,
                   mode, cfg, out, err, noneRule, first>>

ExpandAlwaysReports ==
    /\ mode = "running"
    /\ Top.pc = "start"
    /\ Truthy(Top.unassigned)
    /\ LET nbr_left == Cardinality(DOMAIN Top.unassigned.d)
           sel == select_next_var(cfg.search_strategy, cfg.order_domain,
                                  Top.unassigned.d)
       IN  /\ count' = count + 1
           /\ low_mark' = nbr_left
           /\ reported' = reported \cup {nbr_left}
           /\ stack' = SetTop([Top EXCEPT !.pc = "loop",
                                          !.next_var = sel.next_var,
                                          !.values = sel.next_var_domain])
    /\ UNCHANGED <<lastTry,
                   phase, ctorArgs, variables, domains, constraints, lastAdd,
                   mode, cfg, out, err, noneRule, first>>

\* The else branch up to the head of the for loop: the progress mark, then
\* select_next_var.
Expand ==
    /\ mode = "running"
    /\ Top.pc = "start"
    /\ Truthy(Top.unassigned)
    /\ LET nbr_left == Cardinality(DOMAIN Top.unassigned.d)
           sel == select_next_var(cfg.search_strategy, cfg.order_domain,
                                  Top.unassigned.d)
       IN  /\ IF nbr_left <= low_mark
              THEN /\ count' = count + 1
                   /\ low_mark' = nbr_left
                   /\ reported' = reported \cup {nbr_left}
              ELSE UNCHANGED <<count, low_mark, reported>>
           /\ stack' = SetTop([Top EXCEPT !.pc = "loop",
                                          !.next_var = sel.next_var,
                                          !.values = sel.next_var_domain])
    /\ UNCHANGED <<lastTry,
                   phase, ctorArgs, variables, domains, constraints, lastAdd,
                   mode, cfg, out, err, noneRule, first>>

\* One pass of the for loop's body: extend, propagate, test, recurse.
TryValue ==
    /\ mode = "running"
    /\ Top.pc = "loop"
    /\ Top.values # <<>>
    /\ \E rule \in (IF noneRule = "unset" THEN {"raise", "none"} ELSE {noneRule}) :
         LET value == Head(Top.values)
             extended_assignment == Extend(Top.assignment, Top.next_var, value)
             p == IF cfg.propagate_constraints
                  THEN PropagateAll(constraints[Top.next_var], Top.next_var,
                                    value, Top.unassigned, rule)
                  ELSE NotPropagated(Top.unassigned)
             isConsistent == consistent(Top.next_var, extended_assignment)
             rest == SetTop(AfterTry(Top, extended_assignment))
         IN  /\ noneRule' = IF p.metNone THEN rule ELSE noneRule
             /\ lastTry' =
                  [made |-> TRUE, depth |-> Len(stack),
                   assignment |-> Top.assignment, unassigned |-> Top.unassigned,
                   next_var |-> Top.next_var, value |-> value,
                   extended |-> extended_assignment, calls |-> p.calls,
                   result |-> p.u, raised |-> p.raised,
                   askedConsistent |->
                       ~p.raised /\ ConsistentIsCalled(p.u, cfg.check_constraints),
                   recursed |->
                       ~p.raised /\ ShouldRecurse(p.u, cfg.check_constraints,
                                                  isConsistent)]
             /\ IF p.raised
                THEN /\ stack' = <<>>
                     /\ mode' = "raised"
                     /\ err' = "TypeError"
                ELSE IF ShouldRecurse(p.u, cfg.check_constraints, isConsistent)
                THEN IF Len(stack) >= RecursionLimit
                     THEN /\ stack' = <<>>
                          /\ mode' = "raised"
                          /\ err' = "RecursionError"
                     ELSE /\ stack' = Append(rest, Frame(extended_assignment, p.u))
                          /\ UNCHANGED <<mode, err>>
                ELSE /\ stack' = rest
                     /\ UNCHANGED <<mode, err>>
    /\ UNCHANGED <<reported,
                   phase, ctorArgs, variables, domains, constraints, low_mark,
                   count, lastAdd, cfg, out, first>>

\* The for loop is exhausted: "return None".
LoopReturn ==
    /\ mode = "running"
    /\ Top.pc = "loop"
    /\ Top.values = <<>>
    /\ Pop
    /\ UNCHANGED <<lastTry, reported,
                   phase, ctorArgs, variables, domains, constraints, low_mark,
                   count, lastAdd, cfg, out, err, noneRule, first>>

----------------------------------------------------------------------------
(* The specification *)

Init ==
    /\ phase = "new"
    /\ ctorArgs = [variables |-> <<>>, domains |-> EmptyMap]
    /\ variables = <<>>
    /\ domains = EmptyMap
    /\ constraints = EmptyMap
    /\ low_mark = 0
    /\ count = 0
    /\ lastAdd = NoAdd
    /\ mode = "idle"
    /\ cfg = NoCfg
    /\ stack = <<>>
    /\ out = <<>>
    /\ err = ""
    /\ noneRule = "unset"
    /\ first = NoRun
    /\ lastTry = NoTry
    /\ reported = {}

Next ==
    \/ \E vs \in VarLists : \E ds \in DomainMaps(vs) : Construct(vs, ds)
    \/ \E c \in ConstraintPool : add_constraint(c)
    \/ \E c \in Configs : StartSearch(c)
    \/ Pull
    \/ Yield
    \/ LeafReturn
    \/ Expand
    \/ TryValue
    \/ LoopReturn

Spec == Init /\ [][Next]_vars

----------------------------------------------------------------------------
(* What the claims speak about *)

Ended == mode \in {"done", "raised"}

Vars == Range(variables)

\* Every way to bind every variable to a value of its own domain.
CompleteAssignments ==
    {a \in [Vars -> 1..MaxVal] : \A v \in Vars : a[v] \in domains[v]}

\* The complete assignments under which every variable is consistent.
Solutions == {a \in CompleteAssignments : \A v \in Vars : consistent(v, a)}

NoDuplicates(s) == \A i, j \in 1..Len(s) : s[i] = s[j] => i = j

IsComplete(item) ==
    /\ DOMAIN item = Vars
    /\ \A v \in Vars : item[v] \in domains[v]

AB == [variables |-> <<"A", "B">>]

\* The CSP over vs with the given domain for every variable and A != B alone.
IsPairCSP(vs, dom) ==
    /\ phase = "ready"
    /\ variables = vs
    /\ domains = [v \in Range(vs) |-> dom]
    /\ constraints = [v \in Range(vs) |-> IF v \in {"A", "B"} THEN <<AB>> ELSE <<>>]

----------------------------------------------------------------------------
(* C1..C10 *)

\* C1: a CSP without any solution, searched with propagation enabled, ends
\* without raising and delivers no item; stated on the instance the claim
\* names: variables A, B, both domains {1}, the constraint A != B.
C1_UnsatisfiableEmitsNothing ==
    (IsPairCSP(<<"A", "B">>, {1}) /\ Solutions = {} /\ mode # "idle"
        /\ cfg.propagate_constraints)
    => (out = <<>> /\ mode # "raised")

\* C2: every delivered item binds every variable of the CSP to one value of
\* that variable's original domain.
C2_ItemsAreComplete ==
    phase = "ready" => \A i \in 1..Len(out) : IsComplete(out[i])

\* C3: consistent(variable, item) holds for every delivered item and every
\* variable of the CSP.
C3_ItemsAreConsistent ==
    phase = "ready"
    => \A i \in 1..Len(out) : \A v \in Vars : consistent(v, out[i])

\* C3 is reached: a run with propagation alone delivered an item of a CSP in
\* which every variable carries a constraint.
C3_Witness ==
    /\ mode = "done"
    /\ out # <<>>
    /\ cfg.propagate_constraints
    /\ ~cfg.check_constraints
    /\ Len(variables) = 3
    /\ \A v \in Vars : Len(constraints[v]) = 2

\* C4: for every configuration the run reaches the end of the sequence; the
\* nesting of the search never outgrows what the interpreter allows.
C4_SearchTreeIsExhausted ==
    mode = "raised" => err # "RecursionError"

\* C5: 3 variables with domain {1,2} and A != B, propagation disabled: the set
\* of delivered items is the set found by brute force.
C5_ExhaustiveWithoutPropagation ==
    (IsPairCSP(<<"A", "B", "C">>, {1, 2}) /\ Ended
        /\ ~cfg.propagate_constraints)
    => {out[i] : i \in 1..Len(out)} = Solutions

\* C6: with propagation enabled a run that reaches the end of the sequence has
\* delivered every solution exactly once and nothing else.
C6_ExactlyTheSolutions ==
    (phase = "ready" /\ mode = "done" /\ cfg.propagate_constraints)
    => (NoDuplicates(out) /\ {out[i] : i \in 1..Len(out)} = Solutions)

\* C6, the spec's example alone: A, B in {1,2}, A != B delivers {A:1, B:2} and
\* {A:2, B:1} and nothing else.
C6_ExampleTwoSolutions ==
    (IsPairCSP(<<"A", "B">>, {1, 2}) /\ Ended /\ cfg.propagate_constraints)
    => /\ Len(out) = 2
       /\ {out[i] : i \in 1..Len(out)} =
              {[A |-> 1, B |-> 2], [A |-> 2, B |-> 1]}

\* C7: the items delivered with propagation enabled are the items delivered
\* on the same CSP with propagation disabled and check_constraints enabled.
C7_PropagationEqualsChecking ==
    (first.ran /\ Ended /\ first.cfg.propagate_constraints
        /\ ~cfg.propagate_constraints /\ cfg.check_constraints)
    => {out[i] : i \in 1..Len(out)} = {first.out[i] : i \in 1..Len(first.out)}

\* C8: a second run on the same object with the same configuration delivers
\* the same items in the same order, whatever low_mark and count the first
\* run left behind.
C8_SecondRunRepeatsFirst ==
    (first.ran /\ Ended /\ cfg = first.cfg) => out = first.out

\* C8 is reached: the repeated run delivered several items after the first
\* run had lowered low_mark.
C8_Witness ==
    /\ first.ran
    /\ mode = "done"
    /\ cfg = first.cfg
    /\ Len(out) >= 2
    /\ low_mark < Len(variables)
    /\ count > 0

\* C9: construction raises exactly when a variable of the list has no domain
\* entry; a constructed CSP has a domain entry and an empty constraint list
\* for every variable.
C9_ConstructionFailsIffDomainMissing ==
    phase # "new"
    => /\ phase = "ctor_raised"
          <=> \E v \in Range(ctorArgs.variables) : v \notin DOMAIN ctorArgs.domains
       /\ (phase = "ready" /\ ~lastAdd.called)
          => \A v \in Vars : v \in DOMAIN domains /\ constraints[v] = <<>>

\* C9 is reached: a construction was refused although the first variable of
\* the list had a domain.
C9_Witness ==
    /\ phase = "ctor_raised"
    /\ ctorArgs.variables[1] \in DOMAIN ctorArgs.domains

\* C10: add_constraint raises exactly when the constraint names a variable
\* that is not in the CSP; when it returns, the constraint is the new last
\* element of the list of every variable it names.
C10_AddFailsIffUnknownVariable ==
    lastAdd.called
    => LET c == lastAdd.constraint
       IN  /\ lastAdd.raised
              <=> \E v \in Range(c.variables) : v \notin Vars
           /\ ~lastAdd.raised
              => \A v \in Range(c.variables) :
                    constraints[v] = Append(lastAdd.before[v], c)

\* C10 is reached: a call was refused after another had been accepted.
C10_Witness ==
    /\ lastAdd.called
    /\ lastAdd.raised
    /\ \E v \in Vars : lastAdd.before[v] # <<>>

----------------------------------------------------------------------------
(* C11..C20 *)

\* C11: whatever add_constraint calls were made, every constraint held in a
\* variable's list names only variables of the CSP, and a call that raised
\* left every list as it was before the call.
C11_FailedAddChangesNothing ==
    phase = "ready"
    => /\ \A v \in DOMAIN constraints : \A i \in 1..Len(constraints[v]) :
              Range(constraints[v][i].variables) \subseteq Vars
       /\ (lastAdd.called /\ lastAdd.raised) => constraints = lastAdd.before

\* The order in which the node of frame f tries its candidate values.
ValueOrder(f) ==
    select_next_var(cfg.search_strategy, cfg.order_domain,
                    f.unassigned.d).next_var_domain

\* In every enclosing frame the values still to try are exactly those that
\* follow, in the node's order, the value the frame above it was entered with.
PendingUntouched ==
    \A i \in 1..(Len(stack) - 1) :
        LET f == stack[i]
            v == stack[i + 1].assignment[f.next_var]
        IN  /\ f.pc = "loop"
            /\ \E k \in 1..Len(ValueOrder(f)) :
                  /\ ValueOrder(f)[k] = v
                  /\ f.values = SubSeq(ValueOrder(f), k + 1, Len(ValueOrder(f)))

Delivered == mode = "suspended" /\ out # <<>>

\* C12: an emission suspends the producer at the emitting leaf; when an item
\* is delivered the last value tried is the one that led to the leaf and every
\* later candidate of every level is still pending; while the producer is
\* suspended no assignment, propagation or progress update takes place.
C12_SearchIsLazy ==
    /\ [](Delivered
          => /\ Top.pc = "yielded"
             /\ Top.assignment = out[Len(out)]
             /\ lastTry.extended = Top.assignment
             /\ PendingUntouched)
    /\ [][/\ (out' # out /\ out' # <<>>)
             => (mode' = "suspended" /\ Len(stack') = Len(stack))
          /\ mode = "suspended"
             => /\ stack' = stack
                /\ lastTry' = lastTry
                /\ <<low_mark, count, reported, out>>' =
                       <<low_mark, count, reported, out>>]_vars

\* C12 is reached: an item is delivered while two enclosing levels still hold
\* a candidate that has not been tried.
C12_Witness ==
    /\ Delivered
    /\ IsComplete(out[Len(out)])
    /\ Cardinality({i \in 1..Len(stack) : stack[i].values # <<>>}) >= 2

\* C13: when the propagation of a tentative binding ends with the absent
\* snapshot, no recursive call is made for that value, whatever
\* check_constraints is: no invocation runs on the absent snapshot.
C13_EmptyDomainPrunes ==
    /\ (lastTry.made /\ ~lastTry.raised /\ lastTry.result.isNone)
       => ~lastTry.recursed
    /\ \A i \in 1..Len(stack) : ~stack[i].unassigned.isNone

IsUnassignedIn(v, f) ==
    /\ ~f.unassigned.isNone
    /\ v \in DOMAIN f.unassigned.d
    /\ f.unassigned.d[v] # {}

\* C14: in every invocation of the search each variable of the CSP is bound
\* by the assignment or is a key of the unassigned snapshot with a non-empty
\* candidate set, and never both.
C14_AssignedXorUnassigned ==
    \A i \in 1..Len(stack) : \A v \in Vars :
        (v \in DOMAIN stack[i].assignment) # IsUnassignedIn(v, stack[i])

\* C15: the invocations that bind a variable are never nested deeper than
\* the CSP has variables.
C15_DepthAtMostVariables ==
    Cardinality({i \in 1..Len(stack) : stack[i].pc = "loop"}) <= Len(variables)

\* C16: with check_constraints=False consistent is never invoked, and a value
\* is recursed into exactly when its propagation did not end with the absent
\* snapshot.
C16_TrustsPropagationAlone ==
    (lastTry.made /\ ~lastTry.raised /\ ~cfg.check_constraints)
    => /\ ~lastTry.askedConsistent
       /\ lastTry.recursed <=> ~lastTry.result.isNone

\* The frame that made the last pass of the loop body, while it is alive.
Trier == stack[lastTry.depth]

TrierAlive == lastTry.made /\ lastTry.depth <= Len(stack)

\* C17: a node's assignment and snapshot never change while the node is
\* alive (the caller's initial assignment and domain map included); every
\* node below the root was entered with its parent's assignment plus the one
\* binding next_var := value; every pass of the loop body extends the node's
\* own assignment and starts propagation from the node's own snapshot.
C17_SiblingsAreIsolated ==
    /\ [](stack # <<>>
          => /\ stack[1].assignment = EmptyMap
             /\ stack[1].unassigned = Some(domains))
    /\ [](\A i \in 2..Len(stack) :
            \E v \in Range(ValueOrder(stack[i - 1])) :
                stack[i].assignment =
                    Extend(stack[i - 1].assignment, stack[i - 1].next_var, v))
    /\ [](TrierAlive
          => /\ lastTry.extended =
                    Extend(Trier.assignment, Trier.next_var, lastTry.value)
             /\ lastTry.calls # <<>> => lastTry.calls[1].given = Trier.unassigned)
    /\ [][\A i \in 1..Len(stack) :
            i <= Len(stack')
            => /\ stack'[i].assignment = stack[i].assignment
               /\ stack'[i].unassigned = stack[i].unassigned]_vars

\* C17 is reached: below the root a node tries its second candidate, with
\* propagation, after the search went into its first one.
C17_Witness ==
    /\ TrierAlive
    /\ lastTry.depth >= 2
    /\ ValueOrder(Trier)[1] # lastTry.value
    /\ lastTry.calls # <<>>
    /\ lastTry.recursed

\* What a constraint hands back for the snapshot it was given.
Produced(call) ==
    IF call.given.isNone THEN None
    ELSE propagate(call.constraint, lastTry.next_var, lastTry.value, call.given.d)

\* C18: with propagation enabled the i-th invocation of propagate is that of
\* the i-th constraint registered on the chosen variable (the lists only grow
\* at their end, by the constraint add_constraint was called with); the first
\* is given the node's snapshot, each later one what the one before produced.
C18_PropagationInRegistrationOrder ==
    /\ []((lastTry.made /\ cfg.propagate_constraints)
          => LET cs == constraints[lastTry.next_var]
                 calls == lastTry.calls
             IN  /\ Len(calls) <= Len(cs)
                 /\ ~lastTry.raised => Len(calls) = Len(cs)
                 /\ \A i \in 1..Len(calls) : calls[i].constraint = cs[i]
                 /\ calls # <<>> => calls[1].given = lastTry.unassigned
                 /\ \A i \in 2..Len(calls) :
                        calls[i].given = Produced(calls[i - 1]))
    /\ [][phase = "ready"
          => \A v \in Vars :
                \/ constraints'[v] = constraints[v]
                \/ constraints'[v] = Append(constraints[v], lastAdd'.constraint)]_vars

\* C18 is reached: two constraints of one variable were applied, the second
\* to a snapshot the first had narrowed.
C18_Witness ==
    /\ lastTry.made
    /\ Len(lastTry.calls) = 2
    /\ ~lastTry.calls[2].given.isNone
    /\ \E v \in DOMAIN lastTry.calls[2].given.d :
          lastTry.calls[2].given.d[v] # lastTry.unassigned.d[v]
    /\ lastTry.calls[1].constraint # lastTry.calls[2].constraint

\* C19: no constraint's propagate is invoked with the absent snapshot: after
\* one constraint of the chosen variable signalled an empty domain, no further
\* constraint is propagated for that value.
C19_NoPropagateOnAbsent ==
    lastTry.made
    => \A i \in 1..Len(lastTry.calls) : ~lastTry.calls[i].given.isNone

\* The number a progress print shows: the unassigned variables of the node
\* being entered.
EnteredCount == Cardinality(DOMAIN Top.unassigned.d)

\* C20: count grows, and a progress signal is given, only on entry to a node
\* whose number of unassigned variables is strictly below every count
\* reported before on this object; no count is reported twice.
C20_ProgressOnlyAtNewMinimum ==
    [][count' # count
       => /\ count' = count + 1
          /\ mode = "running" /\ Top.pc = "start"
          /\ EnteredCount \notin reported
          /\ \A r \in reported : EnteredCount < r]_vars

\* C20 as amended: count grows, and a progress signal is given, only on entry
\* to a node with unassigned variables whose number is at or below the
\* low-water mark: at most the number of variables and at most every count
\* reported before; the count reported becomes the new low-water mark.
C20_ProgressAtOrBelowLowMark ==
    [][count' # count
       => /\ count' = count + 1
          /\ mode = "running" /\ Top.pc = "start"
          /\ EnteredCount >= 1
          /\ EnteredCount <= Len(variables)
          /\ \A r \in reported : EnteredCount <= r
          /\ reported' = reported \cup {EnteredCount}
          /\ low_mark' = EnteredCount]_vars

\* C20 is reached: more signals were given than there are distinct counts,
\* so one count was reported again.
C20_Witness ==
    /\ count > Cardinality(reported)
    /\ Cardinality(reported) >= 2
    /\ mode = "done"
    /\ out # <<>>

====
